---- MODULE Spec2Model ----
(***************************************************************************)
(* Huffman compression (main.py): compress_file followed by                *)
(* decompress_file on the artifact it wrote.                               *)
(*                                                                         *)
(* Python values that are used as dict keys carry their type, so that a    *)
(* lookup of a str in a dict keyed by ints behaves as it does in Python:   *)
(*   PyInt(97)  is the int 97 (one element of a bytes object),             *)
(*   PyStr(s)   is a str, s the sequence of its characters,                *)
(*   None       is None.                                                   *)
(* A str of '0'/'1' characters is the sequence of its bits (0 or 1).       *)
(* HuffmanNode objects live in the pool `nodes`; a reference is an index   *)
(* into the pool, 0 is the None reference.  Nodes are pushed onto the heap *)
(* as soon as they are constructed, so a node's index is also its arrival  *)
(* order in the priority queue.                                            *)
(***************************************************************************)
EXTENDS Integers, Sequences, FiniteSets, TLC

\* -------- bounds of the model
MaxLen == 4
NumLetters == 3
OptSyms == 3
OptMaxFreq == 3
MaxAltLen == 2

\* -------- the input alphabet: the space character and some letters
Letters == 97 .. (96 + NumLetters)
Symbols == {32} \cup Letters

\* bytes.rstrip() with no argument strips ASCII whitespace
Whitespace == {9, 10, 11, 12, 13, 32}

PyInt(i) == <<"int", i>>
PyStr(s) == <<"str", s>>
None == <<"NoneType">>
\* a file that does not exist (no byte is -1)
NoFile == <<-1>>

VARIABLES
  pc,               \* position of the program
  txt_file,         \* contents of <arquivo>.txt
  huff_file,        \* contents of <arquivo>.txt.huff, NoFile until written
  stdout,           \* the lines printed so far
  data,             \* compress_file: data
  frequency_table,  \* dict, as the sequence of its (key, value) items
  nodes,            \* the HuffmanNode objects constructed so far
  heap,             \* build_huffman_tree: heap (list of node references)
  node1, node2,     \* build_huffman_tree: node1, node2
  huffman_tree,     \* compress_file: huffman_tree (reference, 0 = None)
  encoding_table,   \* dict symbol -> code
  encoded_data,     \* compress_file: encoded_data (bit string)
  padding,          \* compress_file: padding
  dec_padding,      \* decompress_file: padding
  dec_encoded,      \* decompress_file: encoded_data (bit string)
  bitpos,           \* decompress_file: position of the for loop
  current_code,     \* decompress_file: current_code
  decoded_data      \* decompress_file: decoded_data

vars == <<pc, txt_file, huff_file, stdout, data, frequency_table, nodes, heap,
          node1, node2, huffman_tree, encoding_table, encoded_data, padding,
          dec_padding, dec_encoded, bitpos, current_code, decoded_data>>

compressVars == <<data, frequency_table, nodes, heap, node1, node2,
                  huffman_tree, encoding_table, encoded_data, padding>>
treeVars == <<nodes, heap, node1, node2, huffman_tree>>
decVars == <<dec_padding, dec_encoded, bitpos, current_code, decoded_data>>

\* -------- messages
MsgNoSymbol == "Erro: nenhum simbolo encontrado para construir a arvore de Huffman."
MsgCompressed == "Arquivo comprimido salvo"
MsgNoTable == "Erro: a tabela de codificacao nao foi fornecida."
MsgDecompressed == "Arquivo descomprimido salvo"

\* -------- sequences
SeqsUpTo(S, n) == UNION {[1..k -> S] : k \in 0..n}

RECURSIVE Rstrip(_)
Rstrip(s) ==
  IF s = <<>> THEN <<>>
  ELSE IF s[Len(s)] \in Whitespace THEN Rstrip(SubSeq(s, 1, Len(s) - 1))
  ELSE s

\* -------- dict as a sequence of items <<key, value>>
DictKeys(d) == {d[i][1] : i \in 1..Len(d)}
DictGet(d, k, default) ==
  IF k \in DictKeys(d)
  THEN d[CHOOSE i \in 1..Len(d) : d[i][1] = k][2]
  ELSE default
DictSet(d, k, v) ==
  IF k \in DictKeys(d)
  THEN [i \in 1..Len(d) |-> IF d[i][1] = k THEN <<k, v>> ELSE d[i]]
  ELSE Append(d, <<k, v>>)

RECURSIVE FreqLoop(_, _)
FreqLoop(d, s) ==
  IF s = <<>> THEN d
  ELSE FreqLoop(DictSet(d, PyInt(Head(s)), DictGet(d, PyInt(Head(s)), 0) + 1),
                Tail(s))

build_frequency_table(s) == FreqLoop(<<>>, s)

\* -------- HuffmanNode
HuffmanNode(char, freq) == [char |-> char, freq |-> freq, left |-> 0, right |-> 0]

\* mutant of MergedNode: the merged node takes the frequency of node1 alone
MergedNode_FirstFreqOnly(ns, n1, n2) ==
  [HuffmanNode(None, ns[n1].freq) EXCEPT !.left = n1, !.right = n2]

\* merged = HuffmanNode(None, node1.freq + node2.freq) with its two children
MergedNode(ns, n1, n2) ==
  [HuffmanNode(None, ns[n1].freq + ns[n2].freq) EXCEPT !.left = n1, !.right = n2]

\* mutant of NodeLt: the comparison is reversed
NodeLt_Reversed(ns, a, b) == ns[a].freq > ns[b].freq

\* HuffmanNode.__lt__ on references a, b into the pool ns
NodeLt(ns, a, b) == ns[a].freq < ns[b].freq

\* -------- heapq (positions are 0-based as in Python: h[p + 1] is heap[p])
At(h, p) == h[p + 1]
Put(h, p, x) == [h EXCEPT ![p + 1] = x]

RECURSIVE SiftdownLoop(_, _, _, _, _)
SiftdownLoop(ns, h, startpos, p, newitem) ==
  IF p > startpos /\ NodeLt(ns, newitem, At(h, (p - 1) \div 2))
  THEN SiftdownLoop(ns, Put(h, p, At(h, (p - 1) \div 2)), startpos,
                    (p - 1) \div 2, newitem)
  ELSE Put(h, p, newitem)

siftdown(ns, h, startpos, p) == SiftdownLoop(ns, h, startpos, p, At(h, p))

\* the child that _siftup moves up from position p
SiftupChild(ns, h, p) ==
  IF 2 * p + 2 < Len(h) /\ ~ NodeLt(ns, At(h, 2 * p + 1), At(h, 2 * p + 2))
  THEN 2 * p + 2
  ELSE 2 * p + 1

RECURSIVE SiftupLoop(_, _, _, _)
SiftupLoop(ns, h, p, newitem) ==
  IF 2 * p + 1 < Len(h)
  THEN SiftupLoop(ns, Put(h, p, At(h, SiftupChild(ns, h, p))),
                  SiftupChild(ns, h, p), newitem)
  ELSE <<Put(h, p, newitem), p>>

siftup(ns, h, p) ==
  LET r == SiftupLoop(ns, h, p, At(h, p))
  IN  siftdown(ns, r[1], p, r[2])

heappush(ns, h, item) == siftdown(ns, Append(h, item), 0, Len(h))

\* mutant of heappop: the last element of the list is returned
heappop_Last(ns, h) == <<h[Len(h)], SubSeq(h, 1, Len(h) - 1)>>

\* heappop returns <<returned item, heap afterwards>>
heappop(ns, h) ==
  LET lastelt == h[Len(h)]
      rest == SubSeq(h, 1, Len(h) - 1)
  IN  IF rest # <<>>
      THEN <<rest[1], siftup(ns, Put(rest, 0, lastelt), 0)>>
      ELSE <<lastelt, rest>>

\* -------- build_encoding_table
EmptyDict == [k \in {} |-> <<>>]
Override(f, g) ==
  [k \in (DOMAIN f) \cup (DOMAIN g) |-> IF k \in DOMAIN g THEN g[k] ELSE f[k]]

\* mutant of build_encoding_helper: both descents append '0'
RECURSIVE build_encoding_helper_SameBit(_, _, _)
build_encoding_helper_SameBit(ns, node, code) ==
  IF node = 0 THEN EmptyDict
  ELSE Override(
         Override(IF ns[node].char # None
                  THEN [k \in {ns[node].char} |-> code]
                  ELSE EmptyDict,
                  build_encoding_helper_SameBit(ns, ns[node].left, Append(code, 0))),
         build_encoding_helper_SameBit(ns, ns[node].right, Append(code, 0)))

RECURSIVE build_encoding_helper(_, _, _)
build_encoding_helper(ns, node, code) ==
  IF node = 0 THEN EmptyDict
  ELSE Override(
         Override(IF ns[node].char # None
                  THEN [k \in {ns[node].char} |-> code]
                  ELSE EmptyDict,
                  build_encoding_helper(ns, ns[node].left, Append(code, 0))),
         build_encoding_helper(ns, ns[node].right, Append(code, 1)))

build_encoding_table(ns, tree) == build_encoding_helper(ns, tree, <<>>)

\* -------- bit strings and bytes
RECURSIVE JoinCodes(_, _)
JoinCodes(table, s) ==
  IF s = <<>> THEN <<>>
  ELSE table[PyInt(Head(s))] \o JoinCodes(table, Tail(s))

Zeros(n) == [i \in 1..n |-> 0]

\* mutant of PaddingOf: no padding when the length is a multiple of 8
PaddingOf_Mod8(bits) == (8 - (Len(bits) % 8)) % 8

\* padding = 8 - len(encoded_data) % 8
PaddingOf(bits) == 8 - (Len(bits) % 8)

\* int(byte, 2) of a string of 8 binary digits
RECURSIVE IntBase2(_)
IntBase2(b) ==
  IF b = <<>> THEN 0 ELSE 2 * IntBase2(SubSeq(b, 1, Len(b) - 1)) + b[Len(b)]

\* the loop over range(0, len(encoded_data), 8)
RECURSIVE PackBytes(_)
PackBytes(bits) ==
  IF bits = <<>> THEN <<>>
  ELSE <<IntBase2(SubSeq(bits, 1, IF Len(bits) < 8 THEN Len(bits) ELSE 8))>>
       \o PackBytes(SubSeq(bits, 9, Len(bits)))

\* mutant of Format08b: least significant bit first
Format08b_LsbFirst(byte) == [i \in 1..8 |-> (byte \div (2 ^ (i - 1))) % 2]

\* format(byte, '08b')
Format08b(byte) == [i \in 1..8 |-> (byte \div (2 ^ (8 - i))) % 2]

RECURSIVE ExpandBytes(_)
ExpandBytes(bytes) ==
  IF bytes = <<>> THEN <<>>
  ELSE Format08b(Head(bytes)) \o ExpandBytes(Tail(bytes))

\* encoded_data[:-padding]
DropLast(bits, n) ==
  IF n = 0 THEN <<>>
  ELSE IF n >= Len(bits) THEN <<>>
  ELSE SubSeq(bits, 1, Len(bits) - n)

\* str.encode('utf-8') of a str of '0'/'1' characters
Utf8(s) == [i \in 1..Len(s) |-> 48 + s[i]]

\* ======================= the program =======================
Init ==
  /\ pc = "compress"
  /\ txt_file \in SeqsUpTo(Symbols, MaxLen)
  /\ huff_file = NoFile
  /\ stdout = <<>>
  /\ data = <<>>
  /\ frequency_table = <<>>
  /\ nodes = <<>>
  /\ heap = <<>>
  /\ node1 = 0
  /\ node2 = 0
  /\ huffman_tree = 0
  /\ encoding_table = EmptyDict
  /\ encoded_data = <<>>
  /\ padding = 0
  /\ dec_padding = 0
  /\ dec_encoded = <<>>
  /\ bitpos = 0
  /\ current_code = <<>>
  /\ decoded_data = <<>>

\* compress_file: read and rstrip the input, count the frequencies, and
\* enter build_huffman_tree with an empty heap
CompressRead ==
  /\ pc = "compress"
  /\ data' = Rstrip(txt_file)
  /\ frequency_table' = build_frequency_table(data')
  /\ heap' = <<>>
  /\ pc' = IF frequency_table' = <<>> THEN "loop" ELSE "seed"
  /\ UNCHANGED <<txt_file, huff_file, stdout, nodes, node1, node2, huffman_tree,
                 encoding_table, encoded_data, padding, decVars>>

\* build_huffman_tree: one iteration of the for loop over the table's items
SeedHeap ==
  /\ pc = "seed"
  /\ LET item == frequency_table[Len(nodes) + 1]
         ns == Append(nodes, HuffmanNode(item[1], item[2]))
     IN  /\ nodes' = ns
         /\ heap' = heappush(ns, heap, Len(ns))
         /\ pc' = IF Len(ns) = Len(frequency_table) THEN "loop" ELSE "seed"
  /\ UNCHANGED <<txt_file, huff_file, stdout, data, frequency_table, node1,
                 node2, huffman_tree, encoding_table, encoded_data, padding,
                 decVars>>

\* while len(heap) > 1: node1 = heappop(heap)
PopFirst ==
  /\ pc = "loop"
  /\ Len(heap) > 1
  /\ node1' = heappop(nodes, heap)[1]
  /\ heap' = heappop(nodes, heap)[2]
  /\ pc' = "pop2"
  /\ UNCHANGED <<txt_file, huff_file, stdout, data, frequency_table, nodes,
                 node2, huffman_tree, encoding_table, encoded_data, padding,
                 decVars>>

\* node2 = heappop(heap)
PopSecond ==
  /\ pc = "pop2"
  /\ node2' = heappop(nodes, heap)[1]
  /\ heap' = heappop(nodes, heap)[2]
  /\ pc' = "merge"
  /\ UNCHANGED <<txt_file, huff_file, stdout, data, frequency_table, nodes,
                 node1, huffman_tree, encoding_table, encoded_data, padding,
                 decVars>>

\* merged = HuffmanNode(None, node1.freq + node2.freq), with its children,
\* pushed back
Merge ==
  /\ pc = "merge"
  /\ LET ns == Append(nodes, MergedNode(nodes, node1, node2))
     IN  /\ nodes' = ns
         /\ heap' = heappush(ns, heap, Len(ns))
  /\ pc' = "loop"
  /\ UNCHANGED <<txt_file, huff_file, stdout, data, frequency_table, node1,
                 node2, huffman_tree, encoding_table, encoded_data, padding,
                 decVars>>

\* the loop has ended with an empty heap: the error is printed, None returned
ReturnNone ==
  /\ pc = "loop"
  /\ Len(heap) = 0
  /\ stdout' = Append(stdout, MsgNoSymbol)
  /\ huffman_tree' = 0
  /\ pc' = "table"
  /\ UNCHANGED <<txt_file, huff_file, data, frequency_table, nodes, heap, node1,
                 node2, encoding_table, encoded_data, padding, decVars>>

\* the loop has ended with one node: return heap[0]
ReturnRoot ==
  /\ pc = "loop"
  /\ Len(heap) = 1
  /\ huffman_tree' = heap[1]
  /\ pc' = "table"
  /\ UNCHANGED <<txt_file, huff_file, stdout, data, frequency_table, nodes, heap,
                 node1, node2, encoding_table, encoded_data, padding, decVars>>

\* encoding_table = build_encoding_table(huffman_tree)
BuildTable ==
  /\ pc = "table"
  /\ encoding_table' = build_encoding_table(nodes, huffman_tree)
  /\ pc' = "encode"
  /\ UNCHANGED <<txt_file, huff_file, stdout, data, frequency_table, treeVars,
                 encoded_data, padding, decVars>>

\* the codes are joined and the padding appended
Encode ==
  /\ pc = "encode"
  /\ LET joined == JoinCodes(encoding_table, data)
     IN  /\ padding' = PaddingOf(joined)
         /\ encoded_data' = joined \o Zeros(padding')
  /\ pc' = "pack"
  /\ UNCHANGED <<txt_file, huff_file, stdout, data, frequency_table, treeVars,
                 encoding_table, decVars>>

\* the bytes are built and written after the header byte
PackAndWrite ==
  /\ pc = "pack"
  /\ huff_file' = <<padding>> \o PackBytes(encoded_data)
  /\ stdout' = Append(stdout, MsgCompressed)
  /\ pc' = "compressed"
  /\ UNCHANGED <<txt_file, compressVars, decVars>>

\* decompress_file(input_file) without a table
DecompressNoTable ==
  /\ pc = "compressed"
  /\ stdout' = Append(stdout, MsgNoTable)
  /\ pc' = "returned"
  /\ UNCHANGED <<txt_file, huff_file, compressVars, decVars>>

\* decompress_file(input_file, encoding_table): the artifact is read,
\* expanded to bits and the padding dropped
DecompressRead ==
  /\ pc = "compressed"
  /\ dec_padding' = huff_file[1]
  /\ dec_encoded' = DropLast(ExpandBytes(Tail(huff_file)), dec_padding')
  /\ current_code' = <<>>
  /\ decoded_data' = <<>>
  /\ bitpos' = 1
  /\ pc' = "decode"
  /\ UNCHANGED <<txt_file, huff_file, stdout, compressVars>>

\* one iteration of: for bit in encoded_data
DecodeBit ==
  /\ pc = "decode"
  /\ bitpos <= Len(dec_encoded)
  /\ LET code == Append(current_code, dec_encoded[bitpos])
     IN  IF PyStr(code) \in DOMAIN encoding_table
         THEN /\ decoded_data' = decoded_data \o encoding_table[PyStr(code)]
              /\ current_code' = <<>>
         ELSE /\ current_code' = code
              /\ UNCHANGED decoded_data
  /\ bitpos' = bitpos + 1
  /\ UNCHANGED <<pc, txt_file, huff_file, stdout, compressVars, dec_padding,
                 dec_encoded>>

\* the loop is over: the decoded text is written to the path without ".huff",
\* which is the path of the original file
DecompressWrite ==
  /\ pc = "decode"
  /\ bitpos > Len(dec_encoded)
  /\ txt_file' = Utf8(decoded_data)
  /\ stdout' = Append(stdout, MsgDecompressed)
  /\ pc' = "done"
  /\ UNCHANGED <<huff_file, compressVars, decVars>>

Next ==
  \/ CompressRead
  \/ SeedHeap
  \/ PopFirst
  \/ PopSecond
  \/ Merge
  \/ ReturnNone
  \/ ReturnRoot
  \/ BuildTable
  \/ Encode
  \/ PackAndWrite
  \/ DecompressNoTable
  \/ DecompressRead
  \/ DecodeBit
  \/ DecompressWrite

Spec == Init /\ [][Next]_vars

\* the program is a single thread that runs to completion
FairSpec == Spec /\ WF_vars(Next)

\* -------- the tree and table construction on inputs given by their
\* frequencies: the file holds f[1] times the first letter, then f[2] times
\* the second, ... (the construction never looks at the symbols' values)
RECURSIVE Runs(_, _)
Runs(f, i) ==
  IF i > Len(f) THEN <<>>
  ELSE [j \in 1..f[i] |-> 96 + i] \o Runs(f, i + 1)

InitOpt ==
  /\ pc = "compress"
  /\ txt_file \in {Runs(f, 1) : f \in UNION {[1..k -> 1..OptMaxFreq] : k \in 1..OptSyms}}
  /\ huff_file = NoFile
  /\ stdout = <<>>
  /\ data = <<>>
  /\ frequency_table = <<>>
  /\ nodes = <<>>
  /\ heap = <<>>
  /\ node1 = 0
  /\ node2 = 0
  /\ huffman_tree = 0
  /\ encoding_table = EmptyDict
  /\ encoded_data = <<>>
  /\ padding = 0
  /\ dec_padding = 0
  /\ dec_encoded = <<>>
  /\ bitpos = 0
  /\ current_code = <<>>
  /\ decoded_data = <<>>

NextOpt ==
  \/ CompressRead
  \/ SeedHeap
  \/ PopFirst
  \/ PopSecond
  \/ Merge
  \/ ReturnRoot
  \/ BuildTable

SpecOpt == InitOpt /\ [][NextOpt]_vars

\* ======================= properties =======================
Printed(msg) == \E i \in 1..Len(stdout) : stdout[i] = msg

\* build_huffman_tree has returned
TreeReturned == pc \notin {"compress", "seed", "loop", "pop2", "merge"}
\* build_encoding_table has returned
TableBuilt == TreeReturned /\ pc # "table"

IsPrefix(a, b) == Len(a) <= Len(b) /\ SubSeq(b, 1, Len(a)) = a

PrefixFree(table) ==
  \A s \in DOMAIN table : \A t \in DOMAIN table :
    s # t => ~ IsPrefix(table[s], table[t])

RECURSIVE SumCost(_, _, _)
SumCost(ft, table, i) ==
  IF i = 0 THEN 0
  ELSE ft[i][2] * Len(table[ft[i][1]]) + SumCost(ft, table, i - 1)

\* the total encoded bit length of the table's symbols under a code
Cost(ft, table) == SumCost(ft, table, Len(ft))

BitStrings(n) == SeqsUpTo({0, 1}, n)

\* the nodes of the tree under a reference
RECURSIVE TreeNodes(_, _)
TreeNodes(ns, n) ==
  IF n = 0 THEN {}
  ELSE {n} \cup TreeNodes(ns, ns[n].left) \cup TreeNodes(ns, ns[n].right)

IsLeaf(ns, n) == ns[n].left = 0 /\ ns[n].right = 0

HeapSet == {heap[i] : i \in 1..Len(heap)}

\* n has the lowest frequency of n and the queued nodes
LowestFrequency(n) == \A m \in HeapSet : nodes[n].freq <= nodes[m].freq

\* n has the lowest frequency, and arrived before every queued node that
\* shares it
EarliestOfLowest(n) ==
  \A m \in HeapSet :
    \/ nodes[n].freq < nodes[m].freq
    \/ nodes[n].freq = nodes[m].freq /\ n < m

\* decoding ended with a candidate that is not empty and matches no code
LeftOver ==
  /\ pc = "done"
  /\ current_code # <<>>
  /\ PyStr(current_code) \notin DOMAIN encoding_table

\* ---- C1: decoding the artifact of a non-empty sequence S with the table
\* built from S writes exactly S
C1_RoundTrip == (pc = "done" /\ data # <<>>) => txt_file = data

\* ---- C2: with at least 2 distinct symbols, every symbol of the table has a
\* code and no code is a prefix of the code of a different symbol
C2_PrefixFree ==
  (TableBuilt /\ Len(frequency_table) >= 2) =>
    /\ DOMAIN encoding_table = DictKeys(frequency_table)
    /\ PrefixFree(encoding_table)

C2_Witness ==
  /\ TableBuilt
  /\ Len(frequency_table) >= 3
  /\ \E s \in DOMAIN encoding_table : \E t \in DOMAIN encoding_table :
       Len(encoding_table[s]) < Len(encoding_table[t])

\* ---- C3: for a non-empty table, no prefix-free binary code over the
\* table's symbols has a smaller total encoded bit length than the code built
C3_Optimal ==
  (pc = "encode" /\ frequency_table # <<>>) =>
    /\ DOMAIN encoding_table = DictKeys(frequency_table)
    /\ \A alt \in [DictKeys(frequency_table) -> BitStrings(MaxAltLen)] :
         PrefixFree(alt) =>
           Cost(frequency_table, alt) >= Cost(frequency_table, encoding_table)

C3_Witness ==
  /\ pc = "encode"
  /\ Len(frequency_table) >= 3
  /\ \E i \in 1..Len(frequency_table) : frequency_table[i][2] >= 2
  /\ \E alt \in [DictKeys(frequency_table) -> BitStrings(MaxAltLen)] :
       /\ PrefixFree(alt)
       /\ Cost(frequency_table, alt) > Cost(frequency_table, encoding_table)

\* ---- C4: the header byte written by compress_file is in 0..7
C4_PaddingIn0to7 == huff_file # NoFile => huff_file[1] \in 0..7

\* C4 as amended: the header byte is in 1..8; it is 8 when the length of the
\* joined codes is a multiple of 8
C4_PaddingIn1to8 ==
  huff_file # NoFile =>
    /\ huff_file[1] \in 1..8
    /\ (Len(JoinCodes(encoding_table, data)) + huff_file[1]) % 8 = 0
    /\ Len(huff_file) = 1 + (Len(JoinCodes(encoding_table, data)) + huff_file[1]) \div 8

C4_Witness ==
  /\ huff_file # NoFile
  /\ huff_file[1] = 8
  /\ Len(JoinCodes(encoding_table, data)) = 8

\* ---- C5: a table with exactly one distinct symbol maps it to a code of
\* exactly one bit
C5_SingleSymbolOneBit ==
  (TableBuilt /\ Len(frequency_table) = 1) =>
    /\ DOMAIN encoding_table = DictKeys(frequency_table)
    /\ \A s \in DOMAIN encoding_table : Len(encoding_table[s]) = 1

\* ---- C6: when the bits are exhausted with a non-empty candidate that
\* matches no code, the operation does not write the output and report success
C6_MalformedStream == LeftOver => ~ Printed(MsgDecompressed)

\* ---- C7: an empty sequence gives an empty table, build_huffman_tree
\* reports the error and returns no tree, and no artifact is produced
C7_EmptyInput ==
  (TreeReturned /\ data = <<>>) =>
    /\ frequency_table = <<>>
    /\ huffman_tree = 0
    /\ Printed(MsgNoSymbol)
    /\ huff_file = NoFile

\* ---- C8: at every pop, the node removed is the earliest arrived of the
\* queued nodes with the lowest frequency
C8_StableTieBreak ==
  /\ pc = "pop2" => EarliestOfLowest(node1)
  /\ pc = "merge" => EarliestOfLowest(node2)

\* C8 as amended: at every pop the node removed has the lowest frequency of
\* the queued nodes; it is the earliest arrived of them at the first pop
\* after the leaves were pushed
C8_PopLowestFrequency ==
  /\ pc = "pop2" => LowestFrequency(node1)
  /\ pc = "merge" => LowestFrequency(node2)
  /\ (pc = "pop2" /\ Len(nodes) = Len(frequency_table)) => EarliestOfLowest(node1)

\* a pop removed a node although an earlier one of the same frequency waits
C8_Witness ==
  /\ pc = "merge"
  /\ \E m \in HeapSet : nodes[m].freq = nodes[node2].freq /\ m < node2

\* ---- C9: for k >= 1 symbols the merge loop ends with one root; the tree
\* has k leaves, one per table entry with its positive frequency, and k-1
\* internal nodes with two children each and the sum of their frequencies;
\* the root's frequency is the length of the input
C9_Shape ==
  (TreeReturned /\ Len(frequency_table) >= 1) =>
    LET k == Len(frequency_table)
        tree == TreeNodes(nodes, huffman_tree)
        leaves == {n \in tree : IsLeaf(nodes, n)}
        internal == tree \ leaves
    IN  /\ heap = <<huffman_tree>>
        /\ huffman_tree # 0
        /\ Cardinality(leaves) = k
        /\ Cardinality(internal) = k - 1
        /\ \A i \in 1..k : \E n \in leaves :
             /\ nodes[n].char = frequency_table[i][1]
             /\ nodes[n].freq = frequency_table[i][2]
             /\ nodes[n].freq > 0
        /\ \A n \in internal :
             /\ nodes[n].char = None
             /\ nodes[n].left # 0
             /\ nodes[n].right # 0
             /\ nodes[n].left # nodes[n].right
             /\ nodes[n].freq = nodes[nodes[n].left].freq + nodes[nodes[n].right].freq
        /\ nodes[huffman_tree].freq = Len(data)

C9_TreeShape == [] C9_Shape /\ <> TreeReturned

C9_Witness ==
  /\ TreeReturned
  /\ Len(frequency_table) >= 3
  /\ Len(nodes) = 2 * Len(frequency_table) - 1
  /\ nodes[huffman_tree].freq > Len(frequency_table)

\* ---- C10: the payload expanded to bits, most significant bit first, less
\* the last `padding` bits of the header, is the concatenation of the codes
C10_BitRoundTrip ==
  pc \in {"decode", "done"} =>
    /\ dec_padding = huff_file[1]
    /\ dec_encoded = JoinCodes(encoding_table, data)

C10_Witness ==
  /\ pc = "decode"
  /\ Len(dec_encoded) >= 5
  /\ \E i \in 1..Len(dec_encoded) : dec_encoded[i] = 1
====
